---- MODULE Spec2Model ----
(***************************************************************************)
(* A model of gtp_connection.py: the GTP session of a Gomoku engine.  The  *)
(* state is the board held by the connection, the side to move and the    *)
(* two session fields gameOver and win_color; each GTP command is one      *)
(* action.  The last command and the response written to stdout are kept  *)
(* as state so that properties can speak about them, and so are the number *)
(* of arguments of the last line and the handler get_cmd invoked for it.   *)
(* The variable codec holds one application of the coordinate functions   *)
(* format_point and move_to_coord, which are checked on their own, and the *)
(* variable line the text of the last line get_cmd was given as raw text.  *)
(***************************************************************************)
EXTENDS Integers, Sequences, FiniteSets, TLC

VARIABLES size, board, current_player, gameOver, win_color, response, lastCmd, alive,
          argnum, handler, codec, line

vars == <<size, board, current_player, gameOver, win_color, response, lastCmd, alive,
          argnum, handler, codec, line>>

(* ------------------------------------------------------------------ *)
(* Colours and verdicts                                                *)
(* ------------------------------------------------------------------ *)
EMPTY == 0
BLACK == 1
WHITE == 2
BORDER == 3
DRAW == 3
UNDECIDED == -1
WinLen == 5
MAXSIZE == 25

(* ------------------------------------------------------------------ *)
(* The board: a linear array over the (size+1) x (size+1) extended     *)
(* index space; row 0 and column 0 hold BORDER.                        *)
(* ------------------------------------------------------------------ *)
NS(sz) == sz + 1

MaxPoint(sz) == NS(sz) * NS(sz)

coord_to_point(row, col, sz) == NS(sz) * row + col

point_to_coord(point, sz) == <<point \div NS(sz), point % NS(sz)>>

IsBorder(p, sz) == (p \div NS(sz) = 0) \/ (p % NS(sz) = 0)

EmptyBoard(sz) == [p \in 0 .. MaxPoint(sz) - 1 |-> IF IsBorder(p, sz) THEN BORDER ELSE EMPTY]

get_empty_points(b) == {p \in DOMAIN b : b[p] = EMPTY}

opponent(color) == WHITE + BLACK - color

(* ------------------------------------------------------------------ *)
(* Coordinates.  A protocol coordinate such as "d4" is the record      *)
(* [ltr |-> ord(letter) - ord("a"), num |-> the integer after it].     *)
(* ------------------------------------------------------------------ *)
LetterI == 8

(* format_point raises ValueError on a row or column outside 0 .. MAXSIZE - 1. *)
format_point_raises(move) ==
    \/ ~(0 <= move[1] /\ move[1] < MAXSIZE)
    \/ ~(0 <= move[2] /\ move[2] < MAXSIZE)

format_point(move) ==
    LET row == move[1]
        col == move[2]
    IN  [ltr |-> IF col - 1 < LetterI THEN col - 1 ELSE col, num |-> row]

(* move_to_coord raises ValueError: the message, or "" when it returns. *)
move_to_coord_raises(point_str, board_size) ==
    IF ~(2 <= board_size /\ board_size <= MAXSIZE) THEN "board_size out of range"
    ELSE IF ~(0 <= point_str.ltr /\ point_str.ltr <= 25) \/ point_str.ltr = LetterI
         THEN "invalid point"
    ELSE IF point_str.num < 1 THEN "invalid point"
    ELSE IF ~((IF point_str.ltr < LetterI THEN point_str.ltr + 1 ELSE point_str.ltr) <= board_size
              /\ point_str.num <= board_size)
         THEN "point off board"
    ELSE ""

(* move_to_coord: the <<row, col>> it returns when it does not raise. *)
move_to_coord(point_str, board_size) ==
    LET col == IF point_str.ltr < LetterI THEN point_str.ltr + 1 ELSE point_str.ltr
        row == point_str.num
    IN  <<row, col>>

(* color_to_int: a token outside the table raises KeyError. *)
color_to_int_raises(c) == c \notin {"b", "w", "e"}

color_to_int(c) ==
    IF c = "b" THEN BLACK
    ELSE IF c = "w" THEN WHITE
    ELSE EMPTY

(* An integer argument: whether the token is a numeral, and its value. *)
int_raises(s) == ~s.digits

int(s) == s.val

(* ------------------------------------------------------------------ *)
(* Responses written to stdout                                         *)
(* ------------------------------------------------------------------ *)
NoResponse == [frame |-> "", text |-> "", color |-> "", moves |-> {}]

respond(text, color, moves) == [frame |-> "=", text |-> text, color |-> color, moves |-> moves]

error(text) == [frame |-> "?", text |-> text, color |-> "", moves |-> {}]

NoMove == [ltr |-> -1, num |-> -1]

Cmd(name, color, move) == [name |-> name, color |-> color, move |-> move]

(* ------------------------------------------------------------------ *)
(* The win detector (check_result and its copy in                      *)
(* gogui_rules_final_result_cmd)                                       *)
(* ------------------------------------------------------------------ *)
(* The run-membership mask of a colour, as the sequence mask[1 .. n]   *)
(* holding the entry of board index i at position i + 1.               *)
connected_component(b, color) == [i \in 1 .. Cardinality(DOMAIN b) |-> b[i - 1] = color]

connected_component_dia(b, color) == connected_component(b, color)

(* for i in final_list: the running count of consecutive True values,  *)
(* tested only when a False value is met.                              *)
RECURSIVE RowLoop(_, _, _)
RowLoop(final_list, i, match) ==
    IF i >= Len(final_list) THEN 0
    ELSE IF final_list[i + 1] THEN RowLoop(final_list, i + 1, match + 1)
    ELSE IF match >= WinLen THEN 1
    ELSE RowLoop(final_list, i + 1, 0)

(* for j in range(checkpoint, len(final_list), stride): every True     *)
(* value on the stride is counted, up to the end of the list.          *)
StrideCount(final_list, checkpoint, stride) ==
    Cardinality({k \in 0 .. ((Len(final_list) - 1 - checkpoint) \div stride) :
                    final_list[checkpoint + k * stride + 1]})

(* for i in range(len(final_list)): the column and diagonal loops; the *)
(* count is carried over consecutive True positions i and tested and   *)
(* reset at a False position.                                          *)
RECURSIVE StrideLoop(_, _, _, _)
StrideLoop(final_list, stride, i, match) ==
    IF i >= Len(final_list) THEN 0
    ELSE IF final_list[i + 1]
         THEN StrideLoop(final_list, stride, i + 1,
                         match + StrideCount(final_list, i, stride))
    ELSE IF match >= WinLen THEN 1
    ELSE StrideLoop(final_list, stride, i + 1, 0)

row_check(b, color) == RowLoop(connected_component(b, color), 0, 0)

col_check(b, sz, color) == StrideLoop(connected_component(b, color), sz + 1, 0, 0)

dia_f_check(b, sz, color) == StrideLoop(connected_component_dia(b, color), sz + 2, 0, 0)

dia_b_check(b, sz, color) == StrideLoop(connected_component_dia(b, color), sz, 0, 0)

ColorWins(b, sz, color) ==
    \/ dia_b_check(b, sz, color) = 1
    \/ dia_f_check(b, sz, color) = 1
    \/ row_check(b, color) = 1
    \/ col_check(b, sz, color) = 1

(* The detector's outcome on a board: BLACK is tested first. *)
Detect(b, sz) ==
    IF ColorWins(b, sz, BLACK) THEN BLACK
    ELSE IF ColorWins(b, sz, WHITE) THEN WHITE
    ELSE IF Cardinality(get_empty_points(b)) = 0 THEN DRAW
    ELSE UNDECIDED

(* ------------------------------------------------------------------ *)
(* Inputs of the bounded model                                         *)
(* ------------------------------------------------------------------ *)
BoardSizes == {2, 3, 6}

ColorTokens == {"b", "w", "e", "x"}

(* The arguments given to boardsize: a size, or a token that is no numeral. *)
SizeTokens == {[digits |-> TRUE, val |-> n] : n \in BoardSizes} \cup {[digits |-> FALSE, val |-> 0]}

(* The number of arguments on a line. *)
MaxArgs == 1

ArgCounts == 0 .. MaxArgs

(* Commands given with a wrong number of arguments, and names that are no command. *)
ArityNames == {"boardsize", "genmove", "play"}

UnknownNames == {"undo"}

(* A board given by the points of its black and of its white stones. *)
Position(sz, blacks, whites) ==
    [p \in 0 .. MaxPoint(sz) - 1 |->
        IF IsBorder(p, sz) THEN BORDER
        ELSE IF p \in blacks THEN BLACK
        ELSE IF p \in whites THEN WHITE
        ELSE EMPTY]

(* The boards a connection is constructed on. *)
StartBoard(sz) ==
    IF sz = 3 THEN Position(3, {coord_to_point(1, 1, 3), coord_to_point(1, 2, 3)},
                               {coord_to_point(3, c, 3) : c \in 1 .. 3})
    ELSE IF sz = 6 THEN Position(6, {coord_to_point(6, c, 6) : c \in 1 .. 4},
                                    {coord_to_point(1, c, 6) : c \in 1 .. 4})
    ELSE EmptyBoard(sz)

(* The points the controller plays at, as <<row, col>>. *)
PlayCoords(sz) ==
    IF sz = 3 THEN {<<1, 3>>, <<2, 1>>, <<2, 2>>, <<2, 3>>}
    ELSE IF sz = 6 THEN {<<6, 5>>, <<6, 6>>, <<1, 5>>}
    ELSE {<<r, c>> : r \in 1 .. sz, c \in 1 .. sz}

(* Coordinates that are not on the board: a column letter or a row number *)
(* up to MaxOff beyond it, and row 0.                                     *)
MaxOff == 1

BadMoves(sz) ==
    {[ltr |-> l, num |-> 1] : l \in sz .. sz + MaxOff}
        \cup {[ltr |-> 0, num |-> n] : n \in {0} \cup (sz + 1 .. sz + MaxOff)}

MoveTokens(sz) == {format_point(rc) : rc \in PlayCoords(sz)} \cup BadMoves(sz)

(* The boards of the bounded model: a start board or an empty board with  *)
(* stones of either colour on some of the played points.                   *)
PlayPoints(sz) == {coord_to_point(rc[1], rc[2], sz) : rc \in PlayCoords(sz)}

ModelBoards(sz) ==
    UNION {{[p \in DOMAIN start |-> IF p \in DOMAIN f THEN f[p] ELSE start[p]] :
              f \in UNION {[pts -> {BLACK, WHITE}] :
                              pts \in SUBSET {q \in PlayPoints(sz) : start[q] = EMPTY}}} :
           start \in {StartBoard(sz), EmptyBoard(sz)}}

(* The detector's outcome, tabulated once over the boards of the model. *)
VerdictTable == [sz \in BoardSizes |-> [b \in ModelBoards(sz) |-> Detect(b, sz)]]

Verdict(b, sz) == VerdictTable[sz][b]

(* Mutant of check_result: a verdict sets gameOver and leaves win_color. *)
check_result_flag_only(b, sz, go, wc) ==
    LET v == Verdict(b, sz)
    IN  IF v = UNDECIDED THEN <<go, wc>> ELSE <<TRUE, wc>>

(* check_result: the session fields <<gameOver, win_color>> it leaves. *)
check_result(b, sz, go, wc) ==
    LET v == Verdict(b, sz)
    IN  IF v = UNDECIDED THEN <<go, wc>> ELSE <<TRUE, v>>

(* Mutant of final_result: a draw is answered and not recorded. *)
final_result_draw_not_recorded(b, sz, go, wc) ==
    LET v == Verdict(b, sz)
    IN  IF v = BLACK THEN <<TRUE, BLACK, "black">>
        ELSE IF v = WHITE THEN <<TRUE, WHITE, "white">>
        ELSE IF v = DRAW THEN <<go, wc, "draw">>
        ELSE <<go, wc, "unknown">>

(* gogui_rules_final_result_cmd: the same detector; the session fields it *)
(* leaves and the word it answers with.                                   *)
final_result(b, sz, go, wc) ==
    LET v == Verdict(b, sz)
    IN  IF v = BLACK THEN <<TRUE, BLACK, "black">>
        ELSE IF v = WHITE THEN <<TRUE, WHITE, "white">>
        ELSE IF v = DRAW THEN <<TRUE, DRAW, "draw">>
        ELSE <<go, wc, "unknown">>

(* ------------------------------------------------------------------ *)
(* The session                                                         *)
(* ------------------------------------------------------------------ *)
(* The coordinate functions are idle during a session. *)
NoCodec == [board_size |-> 0, move |-> <<0, 0>>, stage |-> "idle", point_str |-> NoMove,
            coord |-> <<0, 0>>]

Init ==
    /\ size \in BoardSizes
    /\ board = StartBoard(size)
    /\ current_player = BLACK
    /\ gameOver = FALSE
    /\ win_color = UNDECIDED
    /\ response = NoResponse
    /\ lastCmd = Cmd("", "", NoMove)
    /\ alive = "listening"
    /\ argnum = 0
    /\ handler = ""
    /\ codec = NoCodec
    /\ line = <<>>

(* Mutant of reset: the recorded winner is not cleared. *)
reset_keeps_winner(sz) ==
    /\ size' = sz
    /\ board' = EmptyBoard(sz)
    /\ current_player' = BLACK
    /\ gameOver' = FALSE
    /\ UNCHANGED win_color

(* reset: board.reset(size), gameOver and win_color cleared. *)
reset(sz) ==
    /\ size' = sz
    /\ board' = EmptyBoard(sz)
    /\ current_player' = BLACK
    /\ gameOver' = FALSE
    /\ win_color' = UNDECIDED

clear_board_cmd ==
    /\ alive = "listening"
    /\ reset(size)
    /\ response' = respond("", "", {})
    /\ lastCmd' = Cmd("clear_board", "", NoMove)
    /\ UNCHANGED alive

(* boardsize_cmd: int(args[0]) raises ValueError on a non-numeric token, *)
(* and get_cmd raises it again.                                          *)
boardsize_cmd(arg) ==
    /\ alive = "listening"
    /\ lastCmd' = Cmd("boardsize", "", [ltr |-> -1, num |-> arg.val])
    /\ IF int_raises(arg)
       THEN /\ alive' = "crashed"
            /\ UNCHANGED <<size, board, current_player, gameOver, win_color, response>>
       ELSE /\ reset(int(arg))
            /\ response' = respond("", "", {})
            /\ UNCHANGED alive

quit_cmd ==
    /\ alive = "listening"
    /\ response' = respond("", "", {})
    /\ lastCmd' = Cmd("quit", "", NoMove)
    /\ alive' = "quit"
    /\ UNCHANGED <<size, board, current_player, gameOver, win_color>>

(* Mutant of play_response: the rejections are written with error(). *)
play_response_error_frame(b, sz, c, m) ==
    IF color_to_int_raises(c) THEN respond("Error: KeyError", c, {})
    ELSE IF c # "b" /\ c # "w" THEN error("illegal move: wrong color")
    ELSE IF m.ltr > sz \/ m.num > sz THEN error("illegal move: wrong coordinate")
    ELSE IF move_to_coord_raises(m, sz) # ""
         THEN respond("Error: " \o move_to_coord_raises(m, sz), "", {m})
    ELSE LET coord == move_to_coord(m, sz)
             move == coord_to_point(coord[1], coord[2], sz)
         IN  IF b[move] # EMPTY THEN error("illegal move: occupied")
             ELSE respond("", "", {})

(* play_cmd: the response it writes for colour token c and move token m. *)
play_response(b, sz, c, m) ==
    IF color_to_int_raises(c) THEN respond("Error: KeyError", c, {})
    ELSE IF c # "b" /\ c # "w" THEN respond("illegal move: wrong color", c, {})
    ELSE IF m.ltr > sz \/ m.num > sz THEN respond("illegal move: wrong coordinate", "", {m})
    ELSE IF move_to_coord_raises(m, sz) # ""
         THEN respond("Error: " \o move_to_coord_raises(m, sz), "", {m})
    ELSE LET coord == move_to_coord(m, sz)
             move == coord_to_point(coord[1], coord[2], sz)
         IN  IF b[move] # EMPTY THEN respond("illegal move: occupied", "", {m})
             ELSE respond("", "", {})

(* Mutant of play_accepts: the occupancy test is missing. *)
play_accepts_any_point(b, sz, c, m) ==
    /\ ~color_to_int_raises(c)
    /\ c = "b" \/ c = "w"
    /\ ~(m.ltr > sz \/ m.num > sz)
    /\ move_to_coord_raises(m, sz) = ""

(* Mutant of play_accepts: the colour must be the side to move and the game *)
(* must not be over.                                                       *)
play_accepts_in_turn(b, sz, c, m) ==
    /\ ~color_to_int_raises(c)
    /\ c = "b" \/ c = "w"
    /\ color_to_int(c) = current_player
    /\ ~gameOver
    /\ ~(m.ltr > sz \/ m.num > sz)
    /\ move_to_coord_raises(m, sz) = ""
    /\ LET coord == move_to_coord(m, sz)
       IN  b[coord_to_point(coord[1], coord[2], sz)] = EMPTY

(* play_cmd: whether the move is applied. *)
play_accepts(b, sz, c, m) ==
    /\ ~color_to_int_raises(c)
    /\ c = "b" \/ c = "w"
    /\ ~(m.ltr > sz \/ m.num > sz)
    /\ move_to_coord_raises(m, sz) = ""
    /\ LET coord == move_to_coord(m, sz)
       IN  b[coord_to_point(coord[1], coord[2], sz)] = EMPTY

(* Mutant of play_cmd: the side to move becomes the colour just played. *)
play_cmd_keeps_player(c, m) ==
    /\ alive = "listening"
    /\ response' = play_response(board, size, c, m)
    /\ lastCmd' = Cmd("play", c, m)
    /\ IF play_accepts(board, size, c, m)
       THEN LET coord == move_to_coord(m, size)
                move == coord_to_point(coord[1], coord[2], size)
                color == color_to_int(c)
            IN  /\ board' = [board EXCEPT ![move] = color]
                /\ current_player' = color
       ELSE UNCHANGED <<board, current_player>>
    /\ UNCHANGED <<size, gameOver, win_color, alive>>

play_cmd(c, m) ==
    /\ alive = "listening"
    /\ response' = play_response(board, size, c, m)
    /\ lastCmd' = Cmd("play", c, m)
    /\ IF play_accepts(board, size, c, m)
       THEN LET coord == move_to_coord(m, size)
                move == coord_to_point(coord[1], coord[2], size)
                color == color_to_int(c)
            IN  /\ board' = [board EXCEPT ![move] = color]
                /\ current_player' = opponent(color)
       ELSE UNCHANGED <<board, current_player>>
    /\ UNCHANGED <<size, gameOver, win_color, alive>>

(* Mutant of genmove_response: a draw is not told apart from a loss. *)
genmove_response_draw_resigns(go, wc, color, move, sz) ==
    IF ~go THEN respond("", "", {format_point(point_to_coord(move, sz))})
    ELSE IF wc # UNDECIDED /\ wc # color THEN respond("resign", "", {})
    ELSE IF wc = DRAW THEN respond("pass", "", {})
    ELSE respond("", "", {})

(* Mutant of genmove_response: the move answered is the point a1 whatever *)
(* the board holds there.                                                 *)
genmove_response_any_point(go, wc, color, move, sz) ==
    IF ~go THEN respond("", "", {format_point(<<1, 1>>)})
    ELSE IF wc # UNDECIDED /\ wc # color /\ wc # DRAW THEN respond("resign", "", {})
    ELSE IF wc = DRAW THEN respond("pass", "", {})
    ELSE respond("", "", {})

(* genmove_cmd: the answer once check_result has run, for the move it drew. *)
genmove_response(go, wc, color, move, sz) ==
    IF ~go THEN respond("", "", {format_point(point_to_coord(move, sz))})
    ELSE IF wc # UNDECIDED /\ wc # color /\ wc # DRAW THEN respond("resign", "", {})
    ELSE IF wc = DRAW THEN respond("pass", "", {})
    ELSE respond("", "", {})

(* Mutant of genmove_cmd: the generated move is also played. *)
genmove_cmd_plays(c) ==
    /\ alive = "listening"
    /\ lastCmd' = Cmd("genmove", c, NoMove)
    /\ IF color_to_int_raises(c)
       THEN /\ alive' = "crashed"
            /\ UNCHANGED <<size, board, current_player, gameOver, win_color, response>>
       ELSE \E res \in {check_result(board, size, gameOver, win_color)} :
                /\ gameOver' = res[1]
                /\ win_color' = res[2]
                /\ IF res[1]
                   THEN /\ response' = genmove_response(res[1], res[2], color_to_int(c), 0, size)
                        /\ UNCHANGED <<board, current_player>>
                   ELSE \E move \in get_empty_points(board) :
                            /\ response' = genmove_response(res[1], res[2], color_to_int(c), move, size)
                            /\ board' = [board EXCEPT ![move] = color_to_int(c)]
                            /\ current_player' = opponent(color_to_int(c))
                /\ UNCHANGED <<size, alive>>

genmove_cmd(c) ==
    /\ alive = "listening"
    /\ lastCmd' = Cmd("genmove", c, NoMove)
    /\ IF color_to_int_raises(c)
       THEN /\ alive' = "crashed"
            /\ UNCHANGED <<size, board, current_player, gameOver, win_color, response>>
       ELSE \E res \in {check_result(board, size, gameOver, win_color)} :
                /\ gameOver' = res[1]
                /\ win_color' = res[2]
                /\ IF res[1]
                   THEN /\ response' = genmove_response(res[1], res[2], color_to_int(c), 0, size)
                        /\ UNCHANGED alive
                   ELSE IF get_empty_points(board) = {}
                   THEN /\ alive' = "crashed"
                        /\ UNCHANGED response
                   ELSE /\ \E move \in get_empty_points(board) :
                               response' = genmove_response(res[1], res[2], color_to_int(c), move, size)
                        /\ UNCHANGED alive
                /\ UNCHANGED <<size, board, current_player>>

gogui_rules_legal_moves_cmd ==
    /\ alive = "listening"
    /\ lastCmd' = Cmd("gogui-rules_legal_moves", "", NoMove)
    /\ \E res \in {check_result(board, size, gameOver, win_color)} :
           /\ gameOver' = res[1]
           /\ win_color' = res[2]
           /\ response' = IF res[1] THEN respond("", "", {})
                          ELSE respond("", "", {format_point(point_to_coord(move, size)) :
                                                    move \in get_empty_points(board)})
    /\ UNCHANGED <<size, board, current_player, alive>>

gogui_rules_final_result_cmd ==
    /\ alive = "listening"
    /\ lastCmd' = Cmd("gogui-rules_final_result", "", NoMove)
    /\ \E res \in {final_result(board, size, gameOver, win_color)} :
           /\ gameOver' = res[1]
           /\ win_color' = res[2]
           /\ response' = respond(res[3], "", {})
    /\ UNCHANGED <<size, board, current_player, alive>>

(* gogui_rules_board_cmd: the characters of one row from its i-th cell on, *)
(* and the rows from the given one (counted from 0) down to the first.     *)
row_start(row, sz) == row * NS(sz) + 1

RECURSIVE board_row_str(_, _, _, _)
board_row_str(b, start, i, sz) ==
    IF i >= sz THEN "\n"
    ELSE (IF b[start + i] = BLACK THEN "X"
          ELSE IF b[start + i] = WHITE THEN "O"
          ELSE ".") \o board_row_str(b, start, i + 1, sz)

RECURSIVE board_str(_, _, _)
board_str(b, sz, row) ==
    IF row < 0 THEN ""
    ELSE board_row_str(b, row_start(row + 1, sz), 0, sz) \o board_str(b, sz, row - 1)

gogui_rules_board_cmd ==
    /\ alive = "listening"
    /\ lastCmd' = Cmd("gogui-rules_board", "", NoMove)
    /\ response' = respond(board_str(board, size, size - 1), "", {})
    /\ UNCHANGED <<size, board, current_player, gameOver, win_color, alive>>

(* The command table and the required argument counts. *)
commands ==
    {"protocol_version", "quit", "name", "boardsize", "showboard", "clear_board", "komi",
     "version", "known_command", "genmove", "list_commands", "play", "legal_moves",
     "gogui-rules_game_id", "gogui-rules_board_size", "gogui-rules_legal_moves",
     "gogui-rules_side_to_move", "gogui-rules_board", "gogui-rules_final_result",
     "gogui-analyze_commands"}

argmap == [boardsize |-> 1, komi |-> 1, known_command |-> 1, genmove |-> 1, play |-> 2,
           legal_moves |-> 1]

(* Mutant of has_arg_error: a name outside the table is given the arity 0. *)
has_arg_error_unknown_names(cmd, n) ==
    \/ cmd \in DOMAIN argmap /\ argmap[cmd] # n
    \/ cmd \notin commands /\ n # 0

has_arg_error(cmd, n) == cmd \in DOMAIN argmap /\ argmap[cmd] # n

(* get_cmd on a line with command_name and n arguments: the arity check, *)
(* then the handler of a known command, else the error of an unknown one. *)
get_cmd(command_name, n, Handler) ==
    /\ alive = "listening"
    /\ argnum' = n
    /\ UNCHANGED codec
    /\ IF has_arg_error(command_name, n)
       THEN /\ response' = error("Usage: " \o command_name)
            /\ lastCmd' = Cmd(command_name, "", NoMove)
            /\ handler' = ""
            /\ UNCHANGED <<size, board, current_player, gameOver, win_color, alive>>
       ELSE IF command_name \in commands
       THEN /\ Handler
            /\ handler' = command_name
       ELSE /\ response' = error("Unknown command")
            /\ lastCmd' = Cmd(command_name, "", NoMove)
            /\ handler' = ""
            /\ UNCHANGED <<size, board, current_player, gameOver, win_color, alive>>

Next ==
    \/ \E n \in ArgCounts : get_cmd("clear_board", n, clear_board_cmd) /\ UNCHANGED line
    \/ \E arg \in SizeTokens : get_cmd("boardsize", 1, boardsize_cmd(arg)) /\ UNCHANGED line
    \/ \E n \in ArgCounts : get_cmd("quit", n, quit_cmd) /\ UNCHANGED line
    \/ \E c \in ColorTokens, m \in MoveTokens(size) : get_cmd("play", 2, play_cmd(c, m)) /\ UNCHANGED line
    \/ \E c \in ColorTokens : get_cmd("genmove", 1, genmove_cmd(c)) /\ UNCHANGED line
    \/ \E n \in ArgCounts : get_cmd("gogui-rules_legal_moves", n, gogui_rules_legal_moves_cmd) /\ UNCHANGED line
    \/ \E n \in ArgCounts : get_cmd("gogui-rules_final_result", n, gogui_rules_final_result_cmd) /\ UNCHANGED line
    \/ \E n \in ArgCounts : get_cmd("gogui-rules_board", n, gogui_rules_board_cmd) /\ UNCHANGED line
    \/ \E name \in ArityNames, n \in ArgCounts :
           has_arg_error(name, n) /\ get_cmd(name, n, FALSE) /\ UNCHANGED line
    \/ \E name \in UnknownNames, n \in ArgCounts : get_cmd(name, n, FALSE) /\ UNCHANGED line

Spec == Init /\ [][Next]_vars

(* ------------------------------------------------------------------ *)
(* get_cmd on the raw text of a line.  A line is the sequence of the   *)
(* pieces of text it is made of, a piece being a blank, a "#", a digit *)
(* or a word; readline returns it with the newline at its end.         *)
(* ------------------------------------------------------------------ *)
LineItems == {" ", "#", "7", "clear_board"}

MaxLineLen == 3

Lines == UNION {[1 .. k -> LineItems] : k \in 0 .. MaxLineLen}

whitespace == {" ", "\t", "\r", "\n"}

isdigit(c) == c \in {"0", "1", "2", "3", "4", "5", "6", "7", "8", "9"}

RECURSIVE lstrip(_, _)
lstrip(s, chars) ==
    IF s # <<>> /\ Head(s) \in chars THEN lstrip(Tail(s), chars) ELSE s

RECURSIVE rstrip(_, _)
rstrip(s, chars) ==
    IF s # <<>> /\ s[Len(s)] \in chars THEN rstrip(SubSeq(s, 1, Len(s) - 1), chars) ELSE s

strip(s, chars) == rstrip(lstrip(s, chars), chars)

(* re.sub("^\d+", "", command): the leading digits are removed. *)
RECURSIVE sub_digits(_)
sub_digits(s) ==
    IF s # <<>> /\ isdigit(Head(s)) THEN sub_digits(Tail(s)) ELSE s

(* command.split(): the maximal runs of text without whitespace, each as one string. *)
RECURSIVE split_word(_)
split_word(s) ==
    IF s = <<>> \/ Head(s) \in whitespace THEN "" ELSE Head(s) \o split_word(Tail(s))

RECURSIVE split_rest(_)
split_rest(s) ==
    IF s = <<>> \/ Head(s) \in whitespace THEN s ELSE split_rest(Tail(s))

RECURSIVE split(_)
split(s) ==
    IF lstrip(s, whitespace) = <<>> THEN <<>>
    ELSE <<split_word(lstrip(s, whitespace))>> \o split(split_rest(lstrip(s, whitespace)))

(* The elements get_cmd finds on the line, the leading number removed. *)
line_elements(command) ==
    split(IF isdigit(command[1]) THEN lstrip(sub_digits(command), whitespace) ELSE command)

(* get_cmd has nothing to do on the line: it is blank, or a comment. *)
line_ignored(command) ==
    \/ Len(strip(command, {" ", "\r", "\t"})) = 0
    \/ command[1] = "#"
    \/ line_elements(command) = <<>>

get_cmd_line(l) ==
    /\ alive = "listening"
    /\ line' = l
    /\ IF line_ignored(l \o <<"\n">>)
       THEN UNCHANGED <<size, board, current_player, gameOver, win_color, response, lastCmd,
                        alive, argnum, handler, codec>>
       ELSE \E elements \in {line_elements(l \o <<"\n">>)} :
                get_cmd(elements[1], Len(elements) - 1,
                        IF elements[1] = "clear_board" THEN clear_board_cmd ELSE FALSE)

LineNext == \E l \in Lines : get_cmd_line(l)

(* The lines are read by a connection constructed on the 3x3 board. *)
LineInit == Init /\ size = 3

LineSpec == LineInit /\ [][LineNext]_vars

(* ------------------------------------------------------------------ *)
(* The coordinate functions on their own: a <<row, col>> of a board of *)
(* every legal size is formatted, and the string is converted back.    *)
(* ------------------------------------------------------------------ *)
CodecInit ==
    /\ size = 2
    /\ board = EmptyBoard(2)
    /\ current_player = BLACK
    /\ gameOver = FALSE
    /\ win_color = UNDECIDED
    /\ response = NoResponse
    /\ lastCmd = Cmd("", "", NoMove)
    /\ alive = "listening"
    /\ argnum = 0
    /\ handler = ""
    /\ line = <<>>
    /\ \E sz \in 2 .. MAXSIZE : \E row \in 1 .. sz, col \in 1 .. sz :
           codec = [board_size |-> sz, move |-> <<row, col>>, stage |-> "move",
                    point_str |-> NoMove, coord |-> <<0, 0>>]

format_point_step ==
    /\ codec.stage = "move"
    /\ codec' = IF format_point_raises(codec.move)
                THEN [codec EXCEPT !.stage = "raised"]
                ELSE [codec EXCEPT !.stage = "point_str", !.point_str = format_point(codec.move)]
    /\ UNCHANGED <<size, board, current_player, gameOver, win_color, response, lastCmd, alive,
                   argnum, handler, line>>

move_to_coord_step ==
    /\ codec.stage = "point_str"
    /\ codec' = IF move_to_coord_raises(codec.point_str, codec.board_size) # ""
                THEN [codec EXCEPT !.stage = "raised"]
                ELSE [codec EXCEPT !.stage = "coord",
                                   !.coord = move_to_coord(codec.point_str, codec.board_size)]
    /\ UNCHANGED <<size, board, current_player, gameOver, win_color, response, lastCmd, alive,
                   argnum, handler, line>>

CodecNext == format_point_step \/ move_to_coord_step

CodecSpec == CodecInit /\ [][CodecNext]_vars
(* ------------------------------------------------------------------ *)
(* Properties                                                          *)
(* ------------------------------------------------------------------ *)
OnBoardCoords(sz) == {<<r, c>> : r \in 1 .. sz, c \in 1 .. sz}

ColorOfToken(c) == IF c = "b" THEN BLACK ELSE WHITE

(* The point a move token names when it is the coordinate of a board point, -1 otherwise. *)
TokenPoint(m, sz) ==
    IF \E rc \in OnBoardCoords(sz) : format_point(rc) = m
    THEN LET rc == CHOOSE x \in OnBoardCoords(sz) : format_point(x) = m
         IN  coord_to_point(rc[1], rc[2], sz)
    ELSE -1

(* color has WinLen contiguous stones on a row, a column or a diagonal of the board. *)
HasRun(b, sz, color) ==
    \E rc \in OnBoardCoords(sz), d \in {<<0, 1>>, <<1, 0>>, <<1, 1>>, <<1, -1>>} :
        \A k \in 0 .. WinLen - 1 :
            /\ <<rc[1] + k * d[1], rc[2] + k * d[2]>> \in OnBoardCoords(sz)
            /\ b[coord_to_point(rc[1] + k * d[1], rc[2] + k * d[2], sz)] = color

(* A command that runs the win detector has just been answered. *)
DetectorRan ==
    /\ alive = "listening"
    /\ handler = lastCmd.name
    /\ lastCmd.name \in {"genmove", "gogui-rules_legal_moves", "gogui-rules_final_result"}

(* The play that has just been answered, given with its two arguments, was *)
(* rejected, judged on the board before it.                                *)
PlayRejected ==
    /\ lastCmd'.name = "play"
    /\ handler' = "play"
    /\ \/ lastCmd'.color \notin {"b", "w"}
       \/ TokenPoint(lastCmd'.move, size) = -1
       \/ board[TokenPoint(lastCmd'.move, size)] # EMPTY

(* C1: once gameOver is true, win_color keeps its value under every command *)
(* other than boardsize and clear_board.                                    *)
C1_WinnerNeverChanges ==
    [][(gameOver /\ lastCmd'.name \notin {"boardsize", "clear_board"})
          => win_color' = win_color]_vars

(* C2: play with colour token b or w on an on-board EMPTY point sets exactly *)
(* that cell to the played colour, makes the opponent the side to move and   *)
(* answers with an empty success response.                                   *)
C2_PlaySetsCell ==
    [][(/\ lastCmd'.name = "play"
        /\ lastCmd'.color \in {"b", "w"}
        /\ TokenPoint(lastCmd'.move, size) # -1
        /\ board[TokenPoint(lastCmd'.move, size)] = EMPTY)
          => /\ board' = [board EXCEPT ![TokenPoint(lastCmd'.move, size)] =
                                          ColorOfToken(lastCmd'.color)]
             /\ current_player' = (IF lastCmd'.color = "b" THEN WHITE ELSE BLACK)
             /\ response' = [frame |-> "=", text |-> "", color |-> "", moves |-> {}]]_vars

(* C2 witness: play b on an empty point has been answered with success, the *)
(* point holds BLACK and WHITE is to move.                                  *)
C2_Witness ==
    /\ lastCmd.name = "play" /\ lastCmd.color = "b"
    /\ response = [frame |-> "=", text |-> "", color |-> "", moves |-> {}]
    /\ TokenPoint(lastCmd.move, size) # -1
    /\ board[TokenPoint(lastCmd.move, size)] = BLACK
    /\ current_player = WHITE

(* C3: a rejected play (colour token other than b/w, coordinate not on the *)
(* board, or point occupied) leaves the board cells, currentPlayer,        *)
(* gameOver and winner as they were.                                       *)
C3_RejectedPlayChangesNothing ==
    [][PlayRejected => UNCHANGED <<board, current_player, gameOver, win_color, size>>]_vars

(* C3 witness: a play on an occupied point has been answered "occupied". *)
C3_Witness ==
    /\ lastCmd.name = "play" /\ lastCmd.color \in {"b", "w"}
    /\ TokenPoint(lastCmd.move, size) # -1
    /\ response.text = "illegal move: occupied"
    /\ board[TokenPoint(lastCmd.move, size)] # ColorOfToken(lastCmd.color)

C5_NoRunIsUndecided ==
    (/\ ~HasRun(board, size, BLACK)
     /\ ~HasRun(board, size, WHITE)
     /\ get_empty_points(board) # {})
    => (~gameOver /\ win_color = UNDECIDED)

(* C6: after a command that runs the detector, a board on which a colour *)
(* has WinLen or more contiguous stones has gameOver true and a colour   *)
(* recorded as the winner.                                               *)
C6_RunIsDetected ==
    (DetectorRan /\ (HasRun(board, size, BLACK) \/ HasRun(board, size, WHITE)))
    => (gameOver /\ win_color \in {BLACK, WHITE})

(* C7: after a command that runs the detector, a board with no empty point *)
(* and no run of WinLen for either colour has gameOver true and winner     *)
(* DRAW, and the final-result command has answered "draw".                 *)
C7_FullBoardIsDraw ==
    (/\ DetectorRan
     /\ get_empty_points(board) = {}
     /\ ~HasRun(board, size, BLACK)
     /\ ~HasRun(board, size, WHITE))
    => /\ gameOver
       /\ win_color = DRAW
       /\ lastCmd.name = "gogui-rules_final_result" => response.text = "draw"

(* C8: after a command that runs the detector on a board where both colours *)
(* have a run of WinLen, the recorded winner is BLACK and the final-result  *)
(* command has answered "black".                                            *)
C8_BothRunsReportBlack ==
    (DetectorRan /\ HasRun(board, size, BLACK) /\ HasRun(board, size, WHITE))
    => /\ win_color = BLACK
       /\ lastCmd.name = "gogui-rules_final_result" => response.text = "black"

(* C9: genmove b or w answered on a game that is over says "pass" on a draw, *)
(* "resign" when the requesting colour is not the recorded winner, and is an *)
(* empty success response when it is.                                        *)
C9_GenmoveOnFinishedGame ==
    (/\ alive = "listening"
     /\ lastCmd.name = "genmove" /\ lastCmd.color \in {"b", "w"}
     /\ gameOver)
    => /\ response.frame = "=" /\ response.moves = {}
       /\ response.text = (IF win_color = DRAW THEN "pass"
                           ELSE IF win_color # ColorOfToken(lastCmd.color) THEN "resign"
                           ELSE "")

(* C9 witness: genmove w on a game won by BLACK has been answered "resign". *)
C9_Witness ==
    /\ lastCmd.name = "genmove" /\ lastCmd.color = "w"
    /\ gameOver /\ win_color = BLACK
    /\ response.text = "resign"

(* C10: genmove changes no board cell and not the side to move. *)
C10_GenmoveKeepsBoard ==
    [][lastCmd'.name = "genmove" => UNCHANGED <<board, current_player>>]_vars

(* C10 witness: genmove has answered with a point, and that point is still *)
(* EMPTY on the board.                                                     *)
C10_Witness ==
    /\ lastCmd.name = "genmove" /\ alive = "listening"
    /\ response.moves # {}
    /\ \A m \in response.moves : board[TokenPoint(m, size)] = EMPTY

RequiredArgs(name) ==
    IF name = "play" THEN 2
    ELSE IF name \in {"boardsize", "genmove"} THEN 1
    ELSE 0

(* C12: a line of a command of the table whose argument count differs from *)
(* the command's required count is answered with an error response and no  *)
(* handler is invoked.                                                     *)
C12_WrongArityIsRejected ==
    [][(lastCmd'.name \in commands /\ argnum' # RequiredArgs(lastCmd'.name))
          => (response'.frame = "?" /\ handler' = "")]_vars

(* C13: every line other than a quit command leaves the session listening. *)
C13_OnlyQuitEndsSession ==
    [][lastCmd'.name # "quit" => alive' = "listening"]_vars

(* C15: boardsize N and clear_board, once their handler has run, leave an  *)
(* empty board of size N (of the same size for clear_board) with BLACK to  *)
(* move, gameOver false and winner UNDECIDED.                              *)
C15_ResetRestoresInitialState ==
    [][(handler' \in {"boardsize", "clear_board"} /\ alive' = "listening")
          => /\ size' = (IF handler' = "boardsize" THEN lastCmd'.move.num ELSE size)
             /\ board' = [p \in 0 .. (size' + 1) * (size' + 1) - 1 |->
                             IF p \div (size' + 1) = 0 \/ p % (size' + 1) = 0
                             THEN BORDER ELSE EMPTY]
             /\ current_player' = BLACK
             /\ gameOver' = FALSE
             /\ win_color' = UNDECIDED]_vars

(* C15 witness: clear_board has been answered on the 6x6 board, which was  *)
(* constructed with stones on it, and the board is empty and undecided.    *)
C15_Witness ==
    /\ handler = "clear_board" /\ size = 6
    /\ \A p \in DOMAIN board : board[p] \in {EMPTY, BORDER}
    /\ ~gameOver /\ win_color = UNDECIDED

(* C16: a line whose command name is not in the table is answered with the *)
(* error response "? Unknown command", invokes no handler, changes neither *)
(* the board nor the session state and leaves the session listening.       *)
C16_UnknownCommand ==
    [][lastCmd'.name \notin commands
          => /\ response' = [frame |-> "?", text |-> "Unknown command", color |-> "",
                              moves |-> {}]
             /\ handler' = ""
             /\ alive' = "listening"
             /\ UNCHANGED <<size, board, current_player, gameOver, win_color>>]_vars

(* C16 witness: an unknown command given with an argument on a board with  *)
(* stones has been answered "? Unknown command".                           *)
C16_Witness ==
    /\ lastCmd.name = "undo" /\ argnum = 1
    /\ response.frame = "?" /\ response.text = "Unknown command"
    /\ \E p \in DOMAIN board : board[p] = WHITE
    /\ alive = "listening"

(* C17: gameOver is true exactly when win_color is BLACK, WHITE or DRAW,   *)
(* and false exactly when win_color is UNDECIDED.                          *)
C17_GameOverIffWinner ==
    /\ gameOver <=> win_color \in {BLACK, WHITE, DRAW}
    /\ ~gameOver <=> win_color = UNDECIDED

(* C17 witness: a draw has been recorded by genmove on a full board. *)
C17_Witness ==
    /\ gameOver /\ win_color = DRAW
    /\ lastCmd.name = "genmove"
    /\ get_empty_points(board) = {}

(* C14: for every board size in 2 .. 25 and every <<row, col>> on the board, *)
(* format_point does not raise, and move_to_coord of its result does not     *)
(* raise and returns <<row, col>>.                                           *)
C14_CoordinateRoundTrip ==
    /\ codec.stage # "raised"
    /\ codec.stage = "coord" => codec.coord = codec.move

(* The line of a board row, X for BLACK, O for WHITE and . for EMPTY, and the *)
(* lines of the rows from the given one up to the top row.                    *)
RowLine(b, sz, row) ==
    LET ch(col) == IF b[(sz + 1) * row + col] = BLACK THEN "X"
                   ELSE IF b[(sz + 1) * row + col] = WHITE THEN "O"
                   ELSE "."
        F[col \in 1 .. sz + 1] == IF col > sz THEN "\n" ELSE ch(col) \o F[col + 1]
    IN  F[1]

RowsUpward(b, sz) ==
    LET F[row \in 1 .. sz + 1] == IF row > sz THEN "" ELSE RowLine(b, sz, row) \o F[row + 1]
    IN  F[1]

(* C18: the board-rendering command answers with one line per board row, X *)
(* for BLACK, O for WHITE and . for EMPTY, row 1 first and row size last.   *)
C18_BoardBottomRowFirst ==
    lastCmd.name = "gogui-rules_board" => response.text = RowsUpward(board, size)

(* C19: the message of a rejected play names the check that failed: "wrong  *)
(* color" for a colour token other than b/w, "wrong coordinate" for a       *)
(* coordinate that is not on the board of the current size, "occupied" for  *)
(* an on-board point that is not EMPTY.                                     *)
C19_RejectionNamesFailedCheck ==
    [][(lastCmd'.name = "play" /\ handler' = "play")
          => /\ lastCmd'.color \notin {"b", "w"}
                   => response'.text = "illegal move: wrong color"
             /\ (lastCmd'.color \in {"b", "w"} /\ TokenPoint(lastCmd'.move, size) = -1)
                   => response'.text = "illegal move: wrong coordinate"
             /\ (/\ lastCmd'.color \in {"b", "w"}
                 /\ TokenPoint(lastCmd'.move, size) # -1
                 /\ board[TokenPoint(lastCmd'.move, size)] # EMPTY)
                   => response'.text = "illegal move: occupied"]_vars

(* The number of True values met along the stride from position i of the mask *)
(* up to the first False or out-of-range position.                            *)
ContiguousOnStride(mask, i, stride) ==
    LET last == (Len(mask) - 1 - i) \div stride
        stops == {k \in 0 .. last : ~mask[i + k * stride + 1]}
    IN  IF stops = {} THEN last + 1
        ELSE CHOOSE k \in stops : \A j \in stops : k <= j

(* C20: after a command that runs the detector, for both colours and the     *)
(* strides size+1, size+2 and size, the count started at a True position of  *)
(* the mask is the number of True values up to the first False or            *)
(* out-of-range position on the stride, and a colour is recorded as the      *)
(* winner only if it has WinLen contiguous stones on a line of the board.    *)
C20_StrideCountStopsAtGap ==
    DetectorRan =>
        /\ \A color \in {BLACK, WHITE}, stride \in {size, size + 1, size + 2} :
               \A i \in 0 .. Cardinality(DOMAIN board) - 1 :
                   board[i] = color =>
                       StrideCount(connected_component(board, color), i, stride)
                           = ContiguousOnStride(connected_component(board, color), i, stride)
        /\ \A color \in {BLACK, WHITE} :
               (gameOver /\ win_color = color) => HasRun(board, size, color)

(* The text of a line without the blanks around it. *)
Trimmed(l) ==
    LET text == {i \in 1 .. Len(l) : l[i] # " "}
    IN  IF text = {} THEN <<>>
        ELSE SubSeq(l, CHOOSE i \in text : \A j \in text : i <= j,
                       CHOOSE i \in text : \A j \in text : j <= i)

(* The trimmed line is a number, blanks, and then the word clear_board as a *)
(* token of its own.                                                        *)
NumberedClearBoard(t) ==
    \E j \in 2 .. Len(t), k \in 3 .. Len(t) :
        /\ j < k
        /\ \A i \in 1 .. j - 1 : t[i] = "7"
        /\ \A i \in j .. k - 1 : t[i] = " "
        /\ t[k] = "clear_board"
        /\ k < Len(t) => t[k + 1] = " "

(* C21: a line that, trimmed of the blanks around it, is empty or starts    *)
(* with # is ignored, no response is written and no state changes; and a    *)
(* leading numeric token is removed before the command name is looked up, so *)
(* that a numbered clear_board runs the clear_board handler.                 *)
C21_BlankAndCommentLinesIgnored ==
    [][/\ (Trimmed(line') = <<>> \/ Trimmed(line')[1] = "#")
             => UNCHANGED <<size, board, current_player, gameOver, win_color, response,
                            lastCmd, alive, argnum, handler>>
       /\ NumberedClearBoard(Trimmed(line'))
             => (handler' = "clear_board" /\ response'.frame = "=")]_vars

C23_DecisiveResultIsSticky ==
    [][(gameOver /\ lastCmd'.name \notin {"boardsize", "clear_board"})
          => /\ gameOver'
             /\ handler' = "gogui-rules_final_result" => response'.text # "unknown"
             /\ handler' = "gogui-rules_legal_moves"
                   => (response'.frame = "=" /\ response'.text = "" /\ response'.moves = {})]_vars

(* C24: a play given with colour b or w and an on-board EMPTY point is      *)
(* applied and answered with success whether or not the game is over and    *)
(* whichever colour is to move, and no play changes gameOver or win_color.  *)
C24_PlayIgnoresTurnAndGameOver ==
    [][(lastCmd'.name = "play" /\ handler' = "play")
          => /\ UNCHANGED <<gameOver, win_color>>
             /\ (/\ lastCmd'.color \in {"b", "w"}
                 /\ TokenPoint(lastCmd'.move, size) # -1
                 /\ board[TokenPoint(lastCmd'.move, size)] = EMPTY)
                   => /\ response'.frame = "=" /\ response'.text = ""
                      /\ board'[TokenPoint(lastCmd'.move, size)] = ColorOfToken(lastCmd'.color)]_vars

(* C24 witness: on a game that is over, a play of BLACK has been applied   *)
(* and answered with success, and BLACK has three stones more than the     *)
(* boards are constructed with, so it has played when WHITE was to move.   *)
C24_Witness ==
    /\ gameOver
    /\ lastCmd.name = "play" /\ lastCmd.color = "b" /\ handler = "play"
    /\ response.frame = "=" /\ response.text = ""
    /\ TokenPoint(lastCmd.move, size) # -1
    /\ board[TokenPoint(lastCmd.move, size)] = BLACK
    /\ current_player = WHITE
    /\ Cardinality({p \in DOMAIN board : board[p] = BLACK})
          > Cardinality({p \in DOMAIN board : board[p] = WHITE}) + 2
====
